---------------------------- MODULE Spec2Model ----------------------------
(***************************************************************************)
(* State machine of server.js: the WebSocket session handler that keeps    *)
(* the players registry and the world delta map and fans every change out  *)
(* to the other connections.                                                *)
(*                                                                          *)
(* Node runs one event handler at a time, so every handler (connection,     *)
(* message, close, error) is one atomic action.  What a connection has been *)
(* sent is kept per connection, in order, in `sent`.                        *)
(***************************************************************************)
EXTENDS Integers, Sequences, FiniteSets, TLC

\* Bounds of the model.
MaxConns == 3          \* connections accepted in one run
MaxEvents == 5         \* events (connection, message, error, close) handled in one run

\* client.readyState values; the code tests for 1 (WebSocket.OPEN).
OPEN == 1
CLOSING == 2
CLOSED == 3

Conns == 1..MaxConns

(***************************************************************************)
(* JavaScript values.  Every value is a record tagged by `k`, so that       *)
(* values of different JavaScript types are comparable.  A field that is    *)
(* absent from a parsed message reads as Undefined, and JSON.stringify      *)
(* leaves a field whose value is Undefined out of the text: a message field *)
(* holding Undefined stands for an absent field in both directions.         *)
(* Strings are sequences of one-character strings.                         *)
(***************************************************************************)
Undefined == [k |-> "undefined"]
Null == [k |-> "null"]
NaN == [k |-> "NaN"]
Num(n) == [k |-> "number", n |-> n]
Str(s) == [k |-> "string", s |-> s]
Vec(v) == [k |-> "array", v |-> v]

\* x || 0 : the falsy values are undefined, null, 0, NaN and "".
\* Variant: the value as it is.
OrZeroKeeps(x) == x
OrZero(x) ==
    IF x \in {Undefined, Null, NaN, Num(0), Str(<<>>)} THEN Num(0) ELSE x

Digit(d) == <<"0", "1", "2", "3", "4", "5", "6", "7", "8", "9">>[d + 1]

RECURSIVE NatToString(_)
NatToString(n) ==
    IF n < 10 THEN <<Digit(n)>>
    ELSE NatToString(n \div 10) \o <<Digit(n % 10)>>

\* `${x}` : the string a template literal puts in for x.
TemplateString(x) ==
    CASE x.k = "number" -> IF x.n < 0 THEN <<"-">> \o NatToString(-x.n)
                                      ELSE NatToString(x.n)
      [] x.k = "string" -> x.s
      [] x.k = "undefined" -> <<"u", "n", "d", "e", "f", "i", "n", "e", "d">>
      [] x.k = "null" -> <<"n", "u", "l", "l">>
      [] x.k = "NaN" -> <<"N", "a", "N">>

\* const key = `${data.face}_${data.layer}`
KeyOf(face, layer) == TemplateString(face) \o <<"_">> \o TemplateString(layer)

\* key.split('_') : the pieces of s between the underscores.
RECURSIVE Split(_)
Split(s) ==
    IF \A i \in 1..Len(s) : s[i] # "_" THEN <<s>>
    ELSE LET i == CHOOSE j \in 1..Len(s) :
                      s[j] = "_" /\ \A h \in 1..(j - 1) : s[h] # "_"
         IN <<SubSeq(s, 1, i - 1)>> \o Split(SubSeq(s, i + 1, Len(s)))

DigitValue(c) == CHOOSE d \in 0..9 : Digit(d) = c
IsDigit(c) == \E d \in 0..9 : Digit(d) = c

RECURSIVE DigitsValue(_)
DigitsValue(s) ==
    IF s = <<>> THEN 0
    ELSE 10 * DigitsValue(SubSeq(s, 1, Len(s) - 1)) + DigitValue(s[Len(s)])

\* Number(s) for a string of the model's alphabet (digits, "-", letters):
\* the empty string is 0, a decimal integer literal is that integer, and
\* everything else is NaN.
ToNumber(s) ==
    IF s = <<>> THEN Num(0)
    ELSE IF \A i \in 1..Len(s) : IsDigit(s[i]) THEN Num(DigitsValue(s))
    ELSE IF /\ Len(s) > 1
            /\ s[1] = "-"
            /\ \A i \in 2..Len(s) : IsDigit(s[i])
         THEN Num(-DigitsValue(Tail(s)))
    ELSE NaN

(***************************************************************************)
(* A Map in insertion order: a sequence of entries [key, value].           *)
(* Map.set on a key that is present replaces the value in place.           *)
(***************************************************************************)
MapHas(m, key) == \E i \in 1..Len(m) : m[i].key = key
MapGet(m, key) == m[CHOOSE i \in 1..Len(m) : m[i].key = key].value
\* Variant: a set that never replaces.
MapSetAppends(m, key, value) == Append(m, [key |-> key, value |-> value])
\* Map.set(key, value)
\* Variant: a map that holds one entry and evicts it for a new key.
MapSetEvicts(m, key, value) ==
    IF MapHas(m, key)
    THEN [i \in 1..Len(m) |->
            IF m[i].key = key THEN [key |-> key, value |-> value] ELSE m[i]]
    ELSE <<[key |-> key, value |-> value]>>
MapSet(m, key, value) ==
    IF MapHas(m, key)
    THEN [i \in 1..Len(m) |->
            IF m[i].key = key THEN [key |-> key, value |-> value] ELSE m[i]]
    ELSE Append(m, [key |-> key, value |-> value])
\* Variant: a delete that removes nothing.
MapDeleteNothing(m, key) == m
\* Map.delete(key)
MapDelete(m, key) ==
    LET keep == {i \in 1..Len(m) : m[i].key # key}
        RECURSIVE Pick(_)
        Pick(i) == IF i > Len(m) THEN <<>>
                   ELSE IF i \in keep THEN <<m[i]>> \o Pick(i + 1)
                   ELSE Pick(i + 1)
    IN Pick(1)
MapKeys(m) == {m[i].key : i \in 1..Len(m)}

(***************************************************************************)
(* The program's state.                                                     *)
(***************************************************************************)
VARIABLES
    nConn,          \* connections accepted so far; the handles are 1..nConn
    readyState,     \* client.readyState of every accepted connection
    clients,        \* wss.clients
    players,        \* const players = new Map(): ws -> its playerData object
    playerData,     \* the playerData object each connection handler created
    worldChanges,   \* const worldChanges = new Map(): key -> block
    sent,           \* what has been sent to each connection, in order
    inbound,        \* the inbound messages handled so far, in order
    nEvents         \* events handled so far

vars == <<nConn, readyState, clients, players, playerData, worldChanges,
          sent, inbound, nEvents>>

Accepted == 1..nConn

\* generateUUID(): the n-th identifier drawn; the 122 random bits are taken
\* never to repeat among the connections of one run.
generateUUID(n) == Str(<<"i", "d">> \o NatToString(n))

\* generateColor(): the n-th colour drawn, three channels in [0.3, 1.0), here
\* in tenths; like the identifiers, the random colours of one run differ.
generateColor(n) == [r |-> 3 + (n % 7), g |-> 3, b |-> 9 - (n % 7)]

\* players.get(client): the record, or Undefined.
PlayersGet(plys, pdata, client) ==
    IF MapHas(plys, client) THEN pdata[MapGet(plys, client)] ELSE Undefined

\* ws.send(text) on a connection: the text goes out when the socket is open.
Send(out, rs, ws, message) ==
    IF rs[ws] = OPEN THEN [out EXCEPT ![ws] = Append(@, message)] ELSE out

\* function broadcast(message, excludeId = null), on the state the caller
\* has reached: every client of wss.clients that is open, has a record in
\* players and whose record's id is not excludeId is sent the message.
\* Variant: a broadcast that does not compare the id with excludeId.
broadcastToSender(out, rs, cls, plys, pdata, message, excludeId) ==
    [c \in Conns |->
        IF /\ c \in cls
           /\ rs[c] = OPEN
           /\ PlayersGet(plys, pdata, c) # Undefined
        THEN Append(out[c], message)
        ELSE out[c]]
broadcast(out, rs, cls, plys, pdata, message, excludeId) ==
    [c \in Conns |->
        IF /\ c \in cls
           /\ rs[c] = OPEN
           /\ PlayersGet(plys, pdata, c) # Undefined
           /\ PlayersGet(plys, pdata, c).id # excludeId
        THEN Append(out[c], message)
        ELSE out[c]]

Init ==
    /\ nConn = 0
    /\ readyState = <<>>
    /\ clients = {}
    /\ players = <<>>
    /\ playerData = <<>>
    /\ worldChanges = <<>>
    /\ sent = [c \in Conns |-> <<>>]
    /\ inbound = <<>>
    /\ nEvents = 0

(***************************************************************************)
(* The messages the server sends.                                          *)
(***************************************************************************)
InitMsg(id, color) == [type |-> "init", id |-> id, color |-> color]
PlayerJoin(id, color, position, forward, pitch) ==
    [type |-> "playerJoin", id |-> id, color |-> color,
     position |-> position, forward |-> forward, pitch |-> pitch]
WorldState(changes) == [type |-> "worldState", changes |-> changes]
\* Variant: the notice with face and layer in each other's place.
BlockChangeSwapped(face, layer, block) ==
    [type |-> "blockChange", face |-> layer, layer |-> face, block |-> block]
BlockChange(face, layer, block) ==
    [type |-> "blockChange", face |-> face, layer |-> layer, block |-> block]
PlayerMove(id, position, forward, pitch) ==
    [type |-> "playerMove", id |-> id, position |-> position,
     forward |-> forward, pitch |-> pitch]
\* Variant: the notice under another type name.
PlayerLeft(id) == [type |-> "playerLeft", id |-> id]
PlayerLeave(id) == [type |-> "playerLeave", id |-> id]

\* The record the connection handler builds for a new player.
\* Variant: a record that starts at the origin.
NewPlayerDataAtOrigin(playerId, playerColor) ==
    [id |-> playerId, color |-> playerColor, position |-> Vec(<<0, 0, 0>>),
     forward |-> Vec(<<0, 0, -1>>), pitch |-> Num(0)]
NewPlayerData(playerId, playerColor) ==
    [id |-> playerId, color |-> playerColor,
     position |-> Vec(<<0, 102, 0>>),
     forward |-> Vec(<<0, 0, -1>>),
     pitch |-> Num(0)]

\* players.forEach((data, client) => { if (client !== ws) ws.send(playerJoin) })
\* : the playerJoin messages for the records other than ws's, in Map order.
RECURSIVE ReplayFrom(_, _, _, _)
ReplayFrom(plys, pdata, ws, i) ==
    IF i > Len(plys) THEN <<>>
    ELSE LET data == pdata[plys[i].value]
             rest == ReplayFrom(plys, pdata, ws, i + 1)
         IN IF plys[i].key # ws
            THEN <<PlayerJoin(data.id, data.color, data.position,
                              data.forward, OrZero(data.pitch))>> \o rest
            ELSE rest
\* Variant: a replay without the test client !== ws.
RECURSIVE ReplayWithSelfFrom(_, _, _, _)
ReplayWithSelfFrom(plys, pdata, ws, i) ==
    IF i > Len(plys) THEN <<>>
    ELSE LET data == pdata[plys[i].value]
         IN <<PlayerJoin(data.id, data.color, data.position,
                         data.forward, OrZero(data.pitch))>>
            \o ReplayWithSelfFrom(plys, pdata, ws, i + 1)
JoinReplayWithSelf(plys, pdata, ws) == ReplayWithSelfFrom(plys, pdata, ws, 1)
\* Variant: no replay at all.
JoinReplayNone(plys, pdata, ws) == <<>>
JoinReplay(plys, pdata, ws) == ReplayFrom(plys, pdata, ws, 1)

\* const [face, layer] = key.split('_').map(Number)
\* Variant: the two parts of the key read in the other order.
ChangeOfSwapped(key, block) ==
    LET parts == Split(key)
    IN [face |-> IF Len(parts) > 1 THEN ToNumber(parts[2]) ELSE Undefined,
        layer |-> ToNumber(parts[1]),
        block |-> block]
ChangeOf(key, block) ==
    LET parts == Split(key)
    IN [face |-> ToNumber(parts[1]),
        layer |-> IF Len(parts) > 1 THEN ToNumber(parts[2]) ELSE Undefined,
        block |-> block]

\* for (const [key, block] of worldChanges) changes.push({face, layer, block})
Changes(wc) == [i \in 1..Len(wc) |-> ChangeOf(wc[i].key, wc[i].value)]

\* if (worldChanges.size > 0) ws.send(worldState)
\* Variant: the worldState sent the way broadcastAll sends, to every open
\* connection.
SendWorldStateToAll(out, rs, ws, wc) ==
    IF Len(wc) > 0
    THEN [c \in Conns |->
            IF c \in DOMAIN rs /\ rs[c] = OPEN
            THEN Append(out[c], WorldState(Changes(wc)))
            ELSE out[c]]
    ELSE out
\* Variant: the newcomer is not sent the world.
SendWorldStateNever(out, rs, ws, wc) == out
SendWorldState(out, rs, ws, wc) ==
    IF Len(wc) > 0 THEN Send(out, rs, ws, WorldState(Changes(wc))) ELSE out

RECURSIVE SendAll(_, _, _, _)
SendAll(out, rs, ws, msgs) ==
    IF msgs = <<>> THEN out
    ELSE SendAll(Send(out, rs, ws, Head(msgs)), rs, ws, Tail(msgs))

(***************************************************************************)
(* wss.on('connection', (ws) => ...).  The transport has put ws, open, in   *)
(* wss.clients before the handler runs.                                    *)
(***************************************************************************)
OnConnection ==
    /\ nConn < MaxConns
    /\ nEvents < MaxEvents
    /\ nEvents' = nEvents + 1
    /\ LET ws == nConn + 1
           playerId == generateUUID(ws)
           playerColor == generateColor(ws)
           data == NewPlayerData(playerId, playerColor)
           rs1 == Append(readyState, OPEN)
           cls1 == clients \cup {ws}
           plys1 == MapSet(players, ws, ws)
           pdata1 == Append(playerData, data)
           out1 == Send(sent, rs1, ws, InitMsg(playerId, playerColor))
           out2 == SendAll(out1, rs1, ws, JoinReplay(plys1, pdata1, ws))
           out3 == SendWorldState(out2, rs1, ws, worldChanges)
           out4 == broadcast(out3, rs1, cls1, plys1, pdata1,
                             PlayerJoin(playerId, playerColor, data.position,
                                        data.forward, data.pitch),
                             playerId)
       IN /\ nConn' = ws
          /\ readyState' = rs1
          /\ clients' = cls1
          /\ players' = plys1
          /\ playerData' = pdata1
          /\ sent' = out4
    /\ UNCHANGED <<worldChanges, inbound>>

(***************************************************************************)
(* Inbound messages.  A message is text: either text JSON.parse rejects,   *)
(* or the JSON of a value, here null or an object.  The fields an object    *)
(* does not carry read as Undefined.                                       *)
(***************************************************************************)
Garbage == [text |-> "garbage"]
Json(data) == [text |-> "json", data |-> data]
Object(type, face, layer, block, position, forward, pitch) ==
    [k |-> "object", type |-> type, face |-> face, layer |-> layer,
     block |-> block, position |-> position, forward |-> forward,
     pitch |-> pitch]
BlockChangeIn(face, layer, block) ==
    Json(Object("blockChange", face, layer, block,
                Undefined, Undefined, Undefined))
PositionIn(position, forward, pitch) ==
    Json(Object("position", Undefined, Undefined, Undefined,
                position, forward, pitch))
OtherIn(type) ==
    Json(Object(type, Undefined, Undefined, Undefined,
                Undefined, Undefined, Undefined))

Stone == Str(<<"s", "t", "o", "n", "e">>)
Dirt == Str(<<"d", "i", "r", "t">>)
P1 == Vec(<<1, 2, 3>>)
P2 == Vec(<<4, 5, 6>>)
F1 == Vec(<<1, 0, 0>>)

\* The messages a client sends in the model: well-formed ones, ones with a
\* field missing or of another type than the protocol's, one of an unknown
\* type, the JSON text null, and text that is not JSON.
Messages ==
    { PositionIn(P1, F1, Num(5)),
      PositionIn(P2, F1, Undefined),
      PositionIn(Undefined, F1, Num(5)),
      PositionIn(P1, Undefined, Undefined),
      BlockChangeIn(Num(1), Num(2), Stone),
      BlockChangeIn(Num(1), Num(2), Dirt),
      BlockChangeIn(Num(-1), Num(2), Dirt),
      BlockChangeIn(Num(1), Num(2), Undefined),
      BlockChangeIn(Undefined, Num(2), Stone),
      BlockChangeIn(Num(1), Undefined, Stone),
      BlockChangeIn(Str(<<"1">>), Num(2), Dirt),
      OtherIn("chat"),
      Json(Null),
      Garbage }

\* JSON.parse(message) throws a SyntaxError, or data.type throws a TypeError
\* on null: either way control goes to the catch block.
Throws(message) == message.text # "json" \/ message.data = Null

\* Variant: everything that is not a position message taken for a blockChange.
IsNotPosition(data) == data.type # "position"
\* data.type === 'blockChange'
IsBlockChange(data) == data.type = "blockChange"
\* data.type === 'position'
IsPosition(data) == data.type = "position"

(***************************************************************************)
(* ws.on('message', (message) => ...) of connection ws.  playerId and       *)
(* playerData are the handler's closure: the id drawn at connect and the    *)
(* object then put in players.                                             *)
(***************************************************************************)
\* playerData.position = ..; playerData.forward = ..; playerData.pitch = ..
\* Variant: the assignments made to every record.
UpdateMotionOfAll(pdata, ws, data) ==
    [c \in DOMAIN pdata |->
        [pdata[c] EXCEPT !.position = data.position,
                         !.forward = data.forward,
                         !.pitch = OrZero(data.pitch)]]
UpdateMotion(pdata, ws, data) ==
    [pdata EXCEPT ![ws] =
        [@ EXCEPT !.position = data.position,
                  !.forward = data.forward,
                  !.pitch = OrZero(data.pitch)]]

HandleMessage(ws, message) ==
    /\ nEvents < MaxEvents
    /\ nEvents' = nEvents + 1
    /\ inbound' = Append(inbound, [ws |-> ws, message |-> message])
    /\ UNCHANGED <<nConn, readyState, clients, players>>
    /\ IF Throws(message)
       THEN UNCHANGED <<playerData, worldChanges, sent>>
       ELSE LET data == message.data
                playerId == generateUUID(ws)
            IN IF IsBlockChange(data)
               THEN /\ worldChanges' =
                         MapSet(worldChanges, KeyOf(data.face, data.layer),
                                data.block)
                    /\ sent' = broadcast(sent, readyState, clients, players,
                                         playerData,
                                         BlockChange(data.face, data.layer,
                                                     data.block),
                                         playerId)
                    /\ UNCHANGED playerData
               ELSE IF IsPosition(data)
               THEN /\ playerData' = UpdateMotion(playerData, ws, data)
                    /\ sent' = broadcast(sent, readyState, clients, players,
                                         playerData',
                                         PlayerMove(playerId, data.position,
                                                    data.forward,
                                                    OrZero(data.pitch)),
                                         playerId)
                    /\ UNCHANGED worldChanges
               ELSE UNCHANGED <<playerData, worldChanges, sent>>

\* A message event of a connection whose close event has not been emitted.
OnMessage(ws, message) ==
    /\ readyState[ws] \in {OPEN, CLOSING}
    /\ HandleMessage(ws, message)

\* A message event after the connection's close event: the handler is still
\* attached, and runs if the transport hands it a message that was in flight.
OnLateMessage(ws, message) ==
    /\ readyState[ws] = CLOSED
    /\ HandleMessage(ws, message)

(***************************************************************************)
(* ws.on('close', () => ...).  The transport has set ws closed and taken    *)
(* it out of wss.clients before the handler runs.                          *)
(***************************************************************************)
OnClose(ws) ==
    /\ readyState[ws] \in {OPEN, CLOSING}
    /\ nEvents < MaxEvents
    /\ nEvents' = nEvents + 1
    /\ LET rs1 == [readyState EXCEPT ![ws] = CLOSED]
           cls1 == clients \ {ws}
           plys1 == MapDelete(players, ws)
       IN /\ readyState' = rs1
          /\ clients' = cls1
          /\ players' = plys1
          /\ sent' = broadcast(sent, rs1, cls1, plys1, playerData,
                               PlayerLeave(generateUUID(ws)), Null)
    /\ UNCHANGED <<nConn, playerData, worldChanges, inbound>>

(***************************************************************************)
(* ws.on('error', (error) => ...): the handler only logs.  The transport    *)
(* has left the open state (closing) when it reports an error; a peer's     *)
(* close frame leaves the connection in the same state.                     *)
(***************************************************************************)
\* Variant: an error handler that also removes the record.
OnErrorUnregisters(ws) ==
    /\ readyState[ws] \in {OPEN, CLOSING}
    /\ nEvents < MaxEvents
    /\ nEvents' = nEvents + 1
    /\ readyState' = [readyState EXCEPT ![ws] = CLOSING]
    /\ players' = MapDelete(players, ws)
    /\ UNCHANGED <<nConn, clients, playerData, worldChanges, sent, inbound>>
\* Variant: an error handler that tears the connection down as close does.
OnErrorTearsDown(ws) ==
    /\ readyState[ws] \in {OPEN, CLOSING}
    /\ nEvents < MaxEvents
    /\ nEvents' = nEvents + 1
    /\ LET rs1 == [readyState EXCEPT ![ws] = CLOSING]
           plys1 == MapDelete(players, ws)
       IN /\ readyState' = rs1
          /\ players' = plys1
          /\ sent' = broadcast(sent, rs1, clients, plys1, playerData,
                               PlayerLeave(generateUUID(ws)), Null)
    /\ UNCHANGED <<nConn, clients, playerData, worldChanges, inbound>>
OnError(ws) ==
    /\ readyState[ws] \in {OPEN, CLOSING}
    /\ nEvents < MaxEvents
    /\ nEvents' = nEvents + 1
    /\ readyState' = [readyState EXCEPT ![ws] = CLOSING]
    /\ UNCHANGED <<nConn, clients, players, playerData, worldChanges, sent,
                   inbound>>

Next ==
    \/ OnConnection
    \/ \E ws \in Accepted : \E message \in Messages : OnMessage(ws, message)
    \/ \E ws \in Accepted : OnClose(ws)
    \/ \E ws \in Accepted : OnError(ws)

Spec == Init /\ [][Next]_vars

\* The same program under a transport that may hand the message handler a
\* message after the close event.
NextRace ==
    \/ Next
    \/ \E ws \in Accepted : \E message \in Messages : OnLateMessage(ws, message)

SpecRace == Init /\ [][NextRace]_vars

(***************************************************************************)
(* Vocabulary of the properties.                                           *)
(***************************************************************************)
Registered == MapKeys(players)
NotClosed == {c \in Accepted : readyState[c] # CLOSED}
IdOf(c) == playerData[c].id
Count(s, m) == Cardinality({i \in 1..Len(s) : s[i] = m})
CountType(s, type) == Cardinality({i \in 1..Len(s) : s[i].type = type})
CountAbout(s, type, id) ==
    Cardinality({i \in 1..Len(s) : s[i].type = type /\ s[i].id = id})
LastOf(s) == s[Len(s)]

\* The step is the connection handler's, for the new connection nConn'.
ConnectionStep == nConn' = nConn + 1
\* The step is the message handler's; LastOf(inbound') is what it handled.
MessageStep == Len(inbound') = Len(inbound) + 1
\* The step is the close handler's of connection c.
CloseStep(c) == readyState[c] # CLOSED /\ readyState'[c] = CLOSED

(***************************************************************************)
(* C1.  The players registry holds exactly one record, its own, for each   *)
(* connection that has been accepted and whose close event has not been    *)
(* handled, and no record for any other connection; its size is the number *)
(* of such connections.                                                    *)
(***************************************************************************)
C1_RegistryIsTheLiveConnections ==
    /\ \A i, j \in 1..Len(players) :
          i # j => /\ players[i].key # players[j].key
                   /\ players[i].value # players[j].value
    /\ \A i \in 1..Len(players) : players[i].value = players[i].key
    /\ Registered = NotClosed
    /\ Len(players) = Cardinality(NotClosed)

\* Three connections accepted: one closed, one closing after an error, one
\* open.
C1_Witness ==
    /\ nConn = 3
    /\ \E a, b, c \in Accepted :
          /\ readyState[a] = CLOSED
          /\ readyState[b] = CLOSING
          /\ readyState[c] = OPEN
          /\ Len(players) = 2

\* What the connection handler's step must have sent to ws.
C2_HandshakeOf(ws) ==
    LET h == sent'[ws]
        me == playerData'[ws]
    IN /\ sent[ws] = <<>>
       /\ me.id = generateUUID(ws)
       /\ CountType(h, "init") = 1
       /\ Count(h, InitMsg(me.id, me.color)) = 1
       /\ \A p \in Registered : CountAbout(h, "playerJoin", IdOf(p)) = 1
       /\ CountType(h, "playerJoin") = Cardinality(Registered)
       /\ CountAbout(h, "playerJoin", me.id) = 0
       /\ CountType(h, "worldState") = IF Len(worldChanges) > 0 THEN 1 ELSE 0
       /\ Len(h) = 1 + Cardinality(Registered)
                     + (IF Len(worldChanges) > 0 THEN 1 ELSE 0)

(***************************************************************************)
(* C2.  The connection handler sends the new connection exactly one init   *)
(* with its own id and color, exactly one playerJoin per player registered *)
(* before it and none for itself or anyone else, and exactly one           *)
(* worldState if the world delta map is non-empty, none if it is empty.    *)
(***************************************************************************)
C2_Handshake == [][ConnectionStep => C2_HandshakeOf(nConn')]_vars

\* A connection whose handshake was an init, two playerJoin and a worldState.
C2_Witness ==
    \E ws \in Accepted :
        /\ Len(sent[ws]) = 4
        /\ sent[ws][1].type = "init"
        /\ sent[ws][2].type = "playerJoin"
        /\ sent[ws][3].type = "playerJoin"
        /\ sent[ws][4].type = "worldState"

\* The messages of connection c's handshake, and the broadcast ones.
HandshakeMsg(c, m) ==
    \/ m.type \in {"init", "worldState"}
    \/ m.type = "playerJoin" /\ \E p \in 1..(c - 1) : m.id = IdOf(p)
BroadcastMsg(c, m) ==
    \/ m.type \in {"playerMove", "blockChange", "playerLeave"}
    \/ m.type = "playerJoin" /\ \E p \in (c + 1)..nConn : m.id = IdOf(p)

(***************************************************************************)
(* C3.  Every connection is sent its handshake (the init first, then the   *)
(* playerJoin of the players that were there before it, then the           *)
(* worldState if any) before any broadcast message (the playerJoin of a     *)
(* later player, playerMove, blockChange, playerLeave).                    *)
(***************************************************************************)
C3_HandshakeBeforeBroadcasts ==
    \A c \in Accepted :
        LET s == sent[c]
        IN /\ Len(s) >= 1
           /\ s[1] = InitMsg(IdOf(c), playerData[c].color)
           /\ \A i \in 2..Len(s) : s[i].type # "init"
           /\ \A i \in 1..Len(s) : HandshakeMsg(c, s[i]) \/ BroadcastMsg(c, s[i])
           /\ \A i, j \in 1..Len(s) :
                 i < j => /\ ~(BroadcastMsg(c, s[i]) /\ HandshakeMsg(c, s[j]))
                          /\ ~(s[i].type = "worldState" /\ s[j].type = "playerJoin"
                               /\ HandshakeMsg(c, s[j]))

\* A connection that was sent init, a replayed playerJoin, worldState and
\* then a broadcast.
C3_Witness ==
    \E c \in Accepted :
        /\ Len(sent[c]) >= 4
        /\ sent[c][2].type = "playerJoin"
        /\ sent[c][3].type = "worldState"
        /\ BroadcastMsg(c, sent[c][4])

\* The parts of C4: no playerMove of its own, and the step of a position message.
IsPositionMsg(message) ==
    message.text = "json" /\ message.data # Null /\ message.data.type = "position"

C4_NoEcho ==
    \A a \in Accepted : CountAbout(sent[a], "playerMove", IdOf(a)) = 0

C4_PositionStep ==
    (MessageStep /\ IsPositionMsg(LastOf(inbound').message)) =>
        LET a == LastOf(inbound').ws
        IN /\ sent'[a] = sent[a]
           /\ \A b \in Conns \ {a} :
                 IF b \in Registered /\ readyState[b] = OPEN
                 THEN /\ Len(sent'[b]) = Len(sent[b]) + 1
                      /\ SubSeq(sent'[b], 1, Len(sent[b])) = sent[b]
                      /\ LastOf(sent'[b]).type = "playerMove"
                      /\ LastOf(sent'[b]).id = IdOf(a)
                 ELSE sent'[b] = sent[b]

(***************************************************************************)
(* C4.  A position message of connection A is never sent back to A as a    *)
(* playerMove, and one playerMove with A's id is sent to every other       *)
(* connection that is registered and open when the message is handled,     *)
(* and to no other.                                                        *)
(***************************************************************************)
C4_MoveToTheOthersOnly == []C4_NoEcho /\ [][C4_PositionStep]_vars

\* Three connections; the last message handled is a position message of one
\* and the other two were sent its playerMove last.
C4_Witness ==
    /\ nConn = 3
    /\ Len(inbound) > 0
    /\ IsPositionMsg(LastOf(inbound).message)
    /\ LET a == LastOf(inbound).ws
       IN \A b \in Accepted \ {a} :
              /\ LastOf(sent[b]).type = "playerMove"
              /\ LastOf(sent[b]).id = IdOf(a)

\* The parts of C5: the close step, the steps after it, the count of leaves.
C5_CloseStep(a) ==
    CloseStep(a) =>
        /\ a \notin MapKeys(players')
        /\ \A b \in Conns :
              IF b # a /\ b \in MapKeys(players') /\ readyState'[b] = OPEN
              THEN sent'[b] = Append(sent[b], PlayerLeave(IdOf(a)))
              ELSE sent'[b] = sent[b]

C5_Afterwards(a) ==
    readyState[a] = CLOSED =>
        /\ a \notin MapKeys(players')
        /\ \A b \in Conns :
              /\ CountAbout(sent'[b], "playerLeave", IdOf(a))
                    = CountAbout(sent[b], "playerLeave", IdOf(a))
              /\ CountAbout(sent'[b], "playerJoin", IdOf(a))
                    = CountAbout(sent[b], "playerJoin", IdOf(a))

C5_AtMostOneLeave ==
    \A a \in Accepted :
        /\ readyState[a] = CLOSED => a \notin Registered
        /\ \A b \in Conns : CountAbout(sent[b], "playerLeave", IdOf(a)) <= 1

(***************************************************************************)
(* C5.  When connection A's close is handled, its record leaves the        *)
(* registry and one playerLeave with A's id is sent to every connection    *)
(* that remains registered and open; afterwards A is never registered      *)
(* again, nobody is sent a second playerLeave for A, and nobody (a          *)
(* connection that joins later in particular) is sent a playerJoin for A.  *)
(***************************************************************************)
C5_LeaveOnceAndGone ==
    /\ []C5_AtMostOneLeave
    /\ [][\A a \in Accepted : C5_CloseStep(a) /\ C5_Afterwards(a)]_vars

\* A has closed, B was sent the playerLeave for A, and C, which connected
\* after that, was sent a playerJoin for B and none for A.
C5_Witness ==
    \E a, b, c \in Accepted :
        /\ readyState[a] = CLOSED
        /\ Count(sent[b], PlayerLeave(IdOf(a))) = 1
        /\ CountAbout(sent[c], "playerLeave", IdOf(a)) = 0
        /\ CountAbout(sent[c], "playerJoin", IdOf(b)) = 1
        /\ CountAbout(sent[c], "playerJoin", IdOf(a)) = 0
        /\ c \in Registered

\* The blockChange messages handled so far and the pairs they wrote.
IsBlockChangeMsg(message) ==
    message.text = "json" /\ message.data # Null
        /\ message.data.type = "blockChange"
WriteIdx == {i \in 1..Len(inbound) : IsBlockChangeMsg(inbound[i].message)}
FaceOf(i) == inbound[i].message.data.face
LayerOf(i) == inbound[i].message.data.layer
BlockOf(i) == inbound[i].message.data.block
SamePair(i, j) == FaceOf(i) = FaceOf(j) /\ LayerOf(i) = LayerOf(j)
LastWrite(i) ==
    CHOOSE j \in WriteIdx :
        SamePair(i, j) /\ \A h \in WriteIdx : SamePair(i, h) => h <= j
IntegerKeyed ==
    \A i \in WriteIdx : FaceOf(i).k = "number" /\ LayerOf(i).k = "number"
EntriesFor(i) ==
    {n \in 1..Len(worldChanges) :
        worldChanges[n].key = KeyOf(FaceOf(i), LayerOf(i))}

(***************************************************************************)
(* C6.  The world delta map holds at most one entry per key, and for face  *)
(* and layer that are integers, as the data model has them: after any      *)
(* sequence of blockChange messages the map holds exactly one entry per    *)
(* (face, layer) written, with the block of the blockChange handled last   *)
(* for that pair, so a write to one pair leaves the entries of the other   *)
(* pairs as they were.                                                     *)
(***************************************************************************)
C6_LastWriterWinsPerPair ==
    /\ \A n, m \in 1..Len(worldChanges) :
          n # m => worldChanges[n].key # worldChanges[m].key
    /\ IntegerKeyed =>
          /\ \A i \in WriteIdx :
                /\ Cardinality(EntriesFor(i)) = 1
                /\ \A n \in EntriesFor(i) :
                      worldChanges[n].value = BlockOf(LastWrite(i))
          /\ Len(worldChanges)
                = Cardinality({<<FaceOf(i), LayerOf(i)>> : i \in WriteIdx})

\* Three blockChange with integer keys handled: two to one pair with
\* different blocks and, between them, one to another pair.
C6_Witness ==
    /\ IntegerKeyed
    /\ Len(worldChanges) = 2
    /\ \E i, j, h \in WriteIdx :
          /\ i < j /\ j < h
          /\ SamePair(i, h) /\ ~SamePair(i, j)
          /\ BlockOf(i) # BlockOf(h)
          /\ BlockOf(h) # Undefined

\* The messages the handler has no branch for.
IsIgnorableMsg(message) ==
    \/ message.text # "json"
    \/ message.data = Null
    \/ message.data.type \notin {"blockChange", "position"}

C7_IgnoredStep ==
    (MessageStep /\ IsIgnorableMsg(LastOf(inbound').message)) =>
        /\ readyState' = readyState
        /\ clients' = clients
        /\ players' = players
        /\ playerData' = playerData
        /\ worldChanges' = worldChanges
        /\ sent' = sent

(***************************************************************************)
(* C7.  A message of an unrecognized type, or one that does not parse as   *)
(* a structured message, changes nothing: the connection stays as open and *)
(* as registered as it was, the registry and the world delta map keep      *)
(* their contents, and nothing is sent to anyone.                          *)
(***************************************************************************)
C7_UnknownAndUnparsableIgnored == [][C7_IgnoredStep]_vars

\* Two open, registered connections, and the three kinds of ignorable
\* message handled: an unknown type, the JSON text null, text that is not JSON.
C7_Witness ==
    /\ nConn = 2
    /\ \A c \in Accepted : readyState[c] = OPEN /\ c \in Registered
    /\ {inbound[i].message : i \in 1..Len(inbound)}
          = {OtherIn("chat"), Json(Null), Garbage}

\* A blockChange message without one of its fields.
LacksBlockChangeField(message) ==
    /\ IsBlockChangeMsg(message)
    /\ \/ message.data.face = Undefined
       \/ message.data.layer = Undefined
       \/ message.data.block = Undefined

(***************************************************************************)
(* C8.  The claim: a blockChange message that lacks face, layer or block   *)
(* is ignored; it adds or changes no entry of the world delta map and no   *)
(* blockChange is sent to anyone, and the sender stays open.               *)
(***************************************************************************)
C8_IncompleteBlockChangeIgnored ==
    [][(MessageStep /\ LacksBlockChangeField(LastOf(inbound').message)) =>
          /\ worldChanges' = worldChanges
          /\ sent' = sent
          /\ readyState' = readyState]_vars

\* A position message without position or forward.
LacksPositionField(message) ==
    /\ IsPositionMsg(message)
    /\ \/ message.data.position = Undefined
       \/ message.data.forward = Undefined

IsVector3(x) == x.k = "array" /\ Len(x.v) = 3

C9_RecordsHoldVectors ==
    \A c \in Registered :
        IsVector3(playerData[c].position) /\ IsVector3(playerData[c].forward)

(***************************************************************************)
(* C9.  The claim: a position message that lacks position or forward is     *)
(* dropped; the sender's record keeps its position, forward and pitch, so   *)
(* every registered record holds a 3-component position and forward, and    *)
(* no playerMove is sent to anyone.                                        *)
(***************************************************************************)
C9_IncompletePositionDropped ==
    /\ []C9_RecordsHoldVectors
    /\ [][(MessageStep /\ LacksPositionField(LastOf(inbound').message)) =>
             /\ playerData' = playerData
             /\ sent' = sent]_vars

(***************************************************************************)
(* C10.  The claim: a position message handled for a connection whose      *)
(* record has already left the registry is silently ignored; no record of  *)
(* the registry changes and no playerMove with the departed id is sent to  *)
(* anyone.                                                                 *)
(***************************************************************************)
C10_LatePositionIgnored ==
    [][(/\ MessageStep
        /\ IsPositionMsg(LastOf(inbound').message)
        /\ LastOf(inbound').ws \notin Registered) =>
          LET a == LastOf(inbound').ws
          IN /\ players' = players
             /\ \A c \in Registered : playerData'[c] = playerData[c]
             /\ \A b \in Conns :
                   CountAbout(sent'[b], "playerMove", IdOf(a))
                     = CountAbout(sent[b], "playerMove", IdOf(a))]_vars

\* The step is the error handler's: an event that is none of the others.
ErrorStep ==
    /\ nEvents' = nEvents + 1
    /\ ~ConnectionStep
    /\ ~MessageStep
    /\ \A c \in Accepted : ~CloseStep(c)
\* The error events handled so far.
ErrorCount ==
    nEvents - nConn - Len(inbound)
        - Cardinality({c \in Accepted : readyState[c] = CLOSED})

C11_NoSecondLeave ==
    \A a \in Accepted : \A b \in Conns :
        CountAbout(sent[b], "playerLeave", generateUUID(a)) <= 1

(***************************************************************************)
(* C11.  Teardown is idempotent: whatever errors and close a connection    *)
(* goes through, nobody is ever sent more than one playerLeave with its    *)
(* id, and an error event sends nothing and leaves the registry alone, so  *)
(* the only leave notice is the one of the close that follows.             *)
(***************************************************************************)
C11_TeardownOnce ==
    /\ []C11_NoSecondLeave
    /\ [][ErrorStep => sent' = sent /\ players' = players]_vars

\* Two errors and then the close of one connection, and the connection that
\* remains was sent its playerLeave once.
C11_Witness ==
    /\ nConn = 2
    /\ ErrorCount = 2
    /\ \E a, b \in Accepted :
          /\ readyState[a] = CLOSED
          /\ readyState[b] = OPEN
          /\ Count(sent[b], PlayerLeave(IdOf(a))) = 1

\* A blockChange message that carries face, layer and block.
IsCompleteBlockChange(message) ==
    /\ IsBlockChangeMsg(message)
    /\ message.data.face # Undefined
    /\ message.data.layer # Undefined
    /\ message.data.block # Undefined

C12_BlockChangeStep ==
    (MessageStep /\ IsCompleteBlockChange(LastOf(inbound').message)) =>
        LET a == LastOf(inbound').ws
            data == LastOf(inbound').message.data
        IN /\ sent'[a] = sent[a]
           /\ \A b \in Conns \ {a} :
                 IF b \in Registered /\ readyState[b] = OPEN
                 THEN /\ Len(sent'[b]) = Len(sent[b]) + 1
                      /\ SubSeq(sent'[b], 1, Len(sent[b])) = sent[b]
                      /\ LastOf(sent'[b]).type = "blockChange"
                      /\ LastOf(sent'[b]).face = data.face
                      /\ LastOf(sent'[b]).layer = data.layer
                      /\ LastOf(sent'[b]).block = data.block
                 ELSE sent'[b] = sent[b]

(***************************************************************************)
(* C12.  A blockChange message of connection A that carries face, layer    *)
(* and block is not sent back to A, and one blockChange with the same      *)
(* face, layer and block is sent to every other connection that is         *)
(* registered and open when the message is handled, and to no other.       *)
(***************************************************************************)
C12_BlockChangeToTheOthersOnly == [][C12_BlockChangeStep]_vars

\* Three connections; the last message handled is a complete blockChange of
\* one and the other two were sent the notice last.
C12_Witness ==
    /\ nConn = 3
    /\ Len(inbound) > 0
    /\ IsCompleteBlockChange(LastOf(inbound).message)
    /\ LET a == LastOf(inbound).ws
           data == LastOf(inbound).message.data
       IN /\ Len(sent[a]) = 1
          /\ \A b \in Accepted \ {a} :
                LastOf(sent[b]) = [type |-> "blockChange", face |-> data.face,
                                   layer |-> data.layer, block |-> data.block]

\* The pitch a position message stands for: 0 when it carries none.
PitchOf(data) == IF data.pitch = Undefined THEN Num(0) ELSE data.pitch

C13_PitchStep ==
    (MessageStep /\ IsPositionMsg(LastOf(inbound').message)) =>
        LET a == LastOf(inbound').ws
            data == LastOf(inbound').message.data
        IN /\ playerData'[a].pitch = PitchOf(data)
           /\ \A b \in Conns :
                 sent'[b] # sent[b] =>
                     /\ LastOf(sent'[b]).type = "playerMove"
                     /\ LastOf(sent'[b]).pitch = PitchOf(data)

(***************************************************************************)
(* C13.  A position message without pitch sets the sender's stored pitch   *)
(* to 0 and its playerMove carries pitch 0; a position message with a      *)
(* pitch is stored and sent on with that pitch.                            *)
(***************************************************************************)
C13_PitchDefaultsToZero == [][C13_PitchStep]_vars

\* A connection that was sent a playerMove with pitch 5 and then, for a
\* position message without pitch, one with pitch 0.
C13_Witness ==
    /\ Len(inbound) > 0
    /\ IsPositionMsg(LastOf(inbound).message)
    /\ LastOf(inbound).message.data.pitch = Undefined
    /\ playerData[LastOf(inbound).ws].pitch = Num(0)
    /\ \E b \in Accepted : \E i \in 1..Len(sent[b]) :
          /\ sent[b][i].type = "playerMove"
          /\ sent[b][i].pitch = Num(5)
          /\ LastOf(sent[b]).type = "playerMove"
          /\ LastOf(sent[b]).pitch = Num(0)

C14_FrameStep ==
    /\ \A c \in Accepted :
          /\ playerData'[c].id = playerData[c].id
          /\ playerData'[c].color = playerData[c].color
    /\ MessageStep =>
          LET a == LastOf(inbound').ws
              message == LastOf(inbound').message
          IN /\ \A c \in Accepted \ {a} : playerData'[c] = playerData[c]
             /\ IsPositionMsg(message) => worldChanges' = worldChanges
             /\ IsBlockChangeMsg(message) => playerData' = playerData

(***************************************************************************)
(* C14.  No step changes the id or the color of a record; handling a       *)
(* message of connection A changes no field of the record of any other     *)
(* connection; a position message leaves the store of world changes as it  *)
(* is; a blockChange message leaves every record as it is.                 *)
(***************************************************************************)
C14_Frame == [][C14_FrameStep]_vars

\* One connection has moved and changed a block, and the record of another
\* still holds what it was created with.
C14_Witness ==
    /\ Len(worldChanges) > 0
    /\ \E a, b \in Registered :
          /\ a # b
          /\ playerData[a].position = P1
          /\ playerData[a].id = sent[a][1].id
          /\ playerData[a].color = sent[a][1].color
          /\ playerData[b] = NewPlayerData(sent[b][1].id, sent[b][1].color)

(***************************************************************************)
(* C15.  The store of world changes only grows: a key that is in the store *)
(* is in it after every step, whatever the step is.                        *)
(***************************************************************************)
C15_StoreOnlyGrows ==
    [][MapKeys(worldChanges) \subseteq MapKeys(worldChanges')]_vars

\* Two keys in the store, and the connection that wrote them has closed.
C15_Witness ==
    /\ Cardinality(MapKeys(worldChanges)) = 2
    /\ \E i \in WriteIdx : readyState[inbound[i].ws] = CLOSED

\* The blockChange handled last among those that wrote entry n of the store.
LastWriterOf(n) ==
    CHOOSE j \in WriteIdx :
        /\ KeyOf(FaceOf(j), LayerOf(j)) = worldChanges[n].key
        /\ \A h \in WriteIdx :
              KeyOf(FaceOf(h), LayerOf(h)) = worldChanges[n].key => h <= j
\* What the blockChange message i carried.
WrittenBy(i) == [face |-> FaceOf(i), layer |-> LayerOf(i), block |-> BlockOf(i)]
CarriesFaceAndLayer(i) == FaceOf(i) # Undefined /\ LayerOf(i) # Undefined
IsNumberKeyed(i) == FaceOf(i).k = "number" /\ LayerOf(i).k = "number"
\* The changes of the worldState the connection step sends to the newcomer.
NewcomerChanges ==
    LET s == sent'[nConn']
    IN s[CHOOSE i \in 1..Len(s) : s[i].type = "worldState"].changes

PositionIdx(p) ==
    {i \in 1..Len(inbound) :
        inbound[i].ws = p /\ IsPositionMsg(inbound[i].message)}
LastPosition(p) ==
    inbound[CHOOSE j \in PositionIdx(p) : \A h \in PositionIdx(p) : h <= j]
        .message.data
\* What the replay has to say of player p, whose init message was its first.
ExpectedJoin(p) ==
    IF PositionIdx(p) = {}
    THEN [type |-> "playerJoin", id |-> sent[p][1].id,
          color |-> sent[p][1].color, position |-> Vec(<<0, 102, 0>>),
          forward |-> Vec(<<0, 0, -1>>), pitch |-> Num(0)]
    ELSE [type |-> "playerJoin", id |-> sent[p][1].id,
          color |-> sent[p][1].color, position |-> LastPosition(p).position,
          forward |-> LastPosition(p).forward,
          pitch |-> PitchOf(LastPosition(p))]

(***************************************************************************)
(* C17.  Each playerJoin replayed to a new connection for a player that    *)
(* was there before carries the id and color that player was given in its  *)
(* init message, and the position, forward and pitch (0 when left out) of  *)
(* the position message of that player handled last, or (0, 102, 0),       *)
(* (0, 0, -1) and 0 when there was none.                                   *)
(***************************************************************************)
C17_ReplayIsCurrent ==
    [][ConnectionStep =>
          \A p \in Registered :
              /\ CountAbout(sent'[nConn'], "playerJoin", IdOf(p)) = 1
              /\ Count(sent'[nConn'], ExpectedJoin(p)) = 1]_vars

\* A newcomer was told of one player where its second position message,
\* without pitch, left it, and of another that never moved.
C17_Witness ==
    /\ nConn = 3
    /\ \E p, q \in Registered :
          /\ Cardinality(PositionIdx(p)) = 2
          /\ PositionIdx(q) = {}
          /\ LastOf(inbound).ws = p
          /\ Len(sent[3]) = 3
          /\ sent[3][2] = ExpectedJoin(p)
          /\ sent[3][2].position = P2
          /\ sent[3][2].pitch = Num(0)
          /\ sent[3][3] = ExpectedJoin(q)

\* The ids connection b knows of: sent in a playerJoin and in no playerLeave
\* after it.
KnownTo(b) ==
    {sent[b][i].id : i \in
        {j \in 1..Len(sent[b]) :
            /\ sent[b][j].type = "playerJoin"
            /\ \A h \in (j + 1)..Len(sent[b]) :
                  ~(sent[b][h].type = "playerLeave"
                        /\ sent[b][h].id = sent[b][j].id)}}

(***************************************************************************)
(* C18.  Between handlers, the ids a registered open connection B has been *)
(* sent in a playerJoin and not since in a playerLeave are the ids of the  *)
(* registered players other than B.                                        *)
(***************************************************************************)
C18_ViewIsTheRegistry ==
    \A b \in Registered :
        readyState[b] = OPEN =>
            KnownTo(b) = {IdOf(p) : p \in Registered \ {b}}

\* An open connection that has seen one player leave and knows of another.
C18_Witness ==
    \E b \in Registered :
        /\ readyState[b] = OPEN
        /\ CountType(sent[b], "playerLeave") = 1
        /\ Cardinality(KnownTo(b)) = 1
        /\ Cardinality(Registered) = 2

\* What connection b was told of the world, in the order it was told: the
\* changes of its worldState, then the blockChange notices.
RECURSIVE ToldFrom(_, _)
ToldFrom(s, i) ==
    IF i > Len(s) THEN <<>>
    ELSE (CASE s[i].type = "worldState" -> s[i].changes
            [] s[i].type = "blockChange" ->
                 <<[face |-> s[i].face, layer |-> s[i].layer,
                    block |-> s[i].block]>>
            [] OTHER -> <<>>)
         \o ToldFrom(s, i + 1)
Told(b) == ToldFrom(sent[b], 1)
\* The map b builds of it, the last block told for a (face, layer) winning,
\* as the set of its entries under the store's keys.
ClientMap(b) ==
    LET t == Told(b)
    IN {<<KeyOf(t[i].face, t[i].layer), t[i].block>> : i \in
          {j \in 1..Len(t) :
              \A h \in (j + 1)..Len(t) :
                  ~(t[h].face = t[j].face /\ t[h].layer = t[j].layer)}}
StoreEntries == {<<worldChanges[n].key, worldChanges[n].value>> :
                    n \in 1..Len(worldChanges)}
SendsNoBlockChange(b) == \A i \in WriteIdx : inbound[i].ws # b

(***************************************************************************)
(* C19.  For face and layer that are integers, as the data model has them: *)
(* between handlers, the map that a registered open connection B which     *)
(* sends no blockChange itself builds from its worldState and from the     *)
(* blockChange notices sent to it, in order, the last for a (face, layer)  *)
(* winning, is the store of world changes.                                 *)
(***************************************************************************)
C19_ClientMapIsTheStore ==
    IntegerKeyed =>
        \A b \in Registered :
            (readyState[b] = OPEN /\ SendsNoBlockChange(b)) =>
                ClientMap(b) = StoreEntries

\* A connection was sent a worldState and then a blockChange that replaces
\* the block of the worldState, and the store holds the second block.
C19_Witness ==
    /\ IntegerKeyed
    /\ \E b \in Registered :
          /\ readyState[b] = OPEN
          /\ SendsNoBlockChange(b)
          /\ Len(Told(b)) = 2
          /\ CountType(sent[b], "worldState") = 1
          /\ LastOf(sent[b]).type = "blockChange"
          /\ Told(b)[1].face = Told(b)[2].face
          /\ Told(b)[1].layer = Told(b)[2].layer
          /\ Told(b)[1].block # Told(b)[2].block
          /\ ClientMap(b) = {<<KeyOf(Num(1), Num(2)), Told(b)[2].block>>}

(***************************************************************************)
(* C20.  Every playerMove and every playerLeave sent to a connection comes *)
(* after a playerJoin with the same id sent to that connection, and no     *)
(* playerMove comes after the playerLeave with its id.                     *)
(***************************************************************************)
C20_JoinFirstLeaveLast ==
    \A b \in Accepted : \A i \in 1..Len(sent[b]) :
        /\ sent[b][i].type \in {"playerMove", "playerLeave"} =>
              \E j \in 1..(i - 1) :
                  /\ sent[b][j].type = "playerJoin"
                  /\ sent[b][j].id = sent[b][i].id
        /\ sent[b][i].type = "playerMove" =>
              \A j \in 1..(i - 1) :
                  ~(sent[b][j].type = "playerLeave"
                        /\ sent[b][j].id = sent[b][i].id)

\* A connection was sent the playerJoin, a playerMove and the playerLeave of
\* another, in this order.
C20_Witness ==
    \E a, b \in Accepted : \E i, j, h \in 1..Len(sent[b]) :
        /\ a # b
        /\ i < j /\ j < h
        /\ sent[b][i].type = "playerJoin" /\ sent[b][i].id = IdOf(a)
        /\ sent[b][j].type = "playerMove" /\ sent[b][j].id = IdOf(a)
        /\ sent[b][h] = PlayerLeave(IdOf(a))

=============================================================================
